---- MODULE Spec2Model ----
(***************************************************************************)
(* Turn/settle state machine, aim-and-flick controller and goal detector   *)
(* of the disc flicking game in src/src/App.svelte.                        *)
(*                                                                         *)
(* Positions are pixel coordinates [x, y] with integer components.  A      *)
(* velocity is a record [x, y, d2] that stands for the real vector         *)
(* (x, y) / sqrt(d2): a vector written as it is has d2 = 1, and the vector *)
(* that clampFlick scales by MAX_FLICK / mag is kept exactly as            *)
(* (x * MAX_FLICK, y * MAX_FLICK) / sqrt(x^2 + y^2).                       *)
(*                                                                         *)
(* The rigid-body engine (matter-js) is a collaborator: its integration    *)
(* step is the action Integrate, which draws the new position and velocity *)
(* of each body from small sets.  The engine runs Engine.update and then   *)
(* the afterUpdate listener inside one task, so no input handler runs      *)
(* between the two: pc says where the tick is.                             *)
(***************************************************************************)
EXTENDS Integers, Sequences, FiniteSets

VARIABLES currentSide, waitingForSettle, scoreA, scoreB,
          aiming, aimedBody, mousePos, pos, vel, pc,
          flickSide, flickTeam, since

\* flickSide, flickTeam and since are history variables, read by no action:
\* the side to move at the last flick release, the side that owns the disc
\* it flicked, and which of a settle detection ("settle"), a goal ("goal")
\* and the Reset command ("reset") have happened since that release (or
\* since the start, before the first release)
vars == <<currentSide, waitingForSettle, scoreA, scoreB,
          aiming, aimedBody, mousePos, pos, vel, pc,
          flickSide, flickTeam, since>>

hist == <<flickSide, flickTeam, since>>

(***************************************************************************)
(* Configuration                                                           *)
(***************************************************************************)
width == 900
height == 600
PITCH_MARGIN == 20
DISC_R == 18
BALL_R == 10
MAX_FLICK == 24
\* STOP_EPS = 0.03, in hundredths of a pixel per tick
STOP_EPS == 3
GOAL_WIDTH == 160
yA == height - 160
yB == 160
spacing == 80

\* the number of goals after which the model lets no further goal happen
MaxGoals == 1

\* how far, in pixels, PickInit and PickPoints go either side of the
\* position at which A0 touches A1 and of the rim of A1's reach
PickSpread == 3

\* the largest component of the drag vectors that FlickInit draws
FlickRange == 26

(***************************************************************************)
(* Bodies                                                                  *)
(***************************************************************************)
ball == "ball"
teamA == <<"A0", "A1", "A2">>
teamB == <<"B0", "B1", "B2">>
null == "null"

Range(s) == {s[i] : i \in 1..Len(s)}

\* the four walls and the four goal posts, in the order addPitch adds them
pitchBodies == <<"left", "right", "top", "bottom", "topL", "topR", "botL", "botR">>

\* Composite.allBodies(engine.world): the pitch, then ball, teamA, teamB
allBodies == pitchBodies \o <<ball>> \o teamA \o teamB

\* the bodies that allStopped and resetPositions go through
tracked == <<ball>> \o teamA \o teamB

Circles == Range(tracked)

\* b.circleRadius: 0 for a rectangle
circleRadius(b) ==
    IF b = ball THEN BALL_R
    ELSE IF b \in Range(teamA) \cup Range(teamB) THEN DISC_R
    ELSE 0

center(x, y) == [x |-> x, y |-> y]

Vel(x, y) == [x |-> x, y |-> y, d2 |-> 1]

ZeroVel == Vel(0, 0)

\* the per-body test with <= in place of <
StoppedLoose(v) ==
    v.x * v.x + v.y * v.y <= (STOP_EPS * STOP_EPS * v.d2) \div (100 * 100)

\* |v|^2 < STOP_EPS^2, that is (x^2 + y^2) / d2 < (STOP_EPS / 100)^2,
\* arranged so that no product leaves the integer range
Stopped(v) ==
    v.x * v.x + v.y * v.y <= (STOP_EPS * STOP_EPS * v.d2 - 1) \div (100 * 100)

allStopped(g) == \A i \in 1..Len(tracked) : Stopped(g.vel[tracked[i]])

\* the part of the state that the tick hooks and resetPositions work on
Game == [pos |-> pos, vel |-> vel, currentSide |-> currentSide,
         waitingForSettle |-> waitingForSettle,
         scoreA |-> scoreA, scoreB |-> scoreB]

\* switchTurnIfSettle that ends the wait and leaves the side as it is
switchTurnNoFlip(g) ==
    IF g.waitingForSettle /\ allStopped(g)
    THEN [g EXCEPT !.waitingForSettle = FALSE]
    ELSE g

\* switchTurnIfSettle that flips the side and leaves the wait pending
switchTurnStaysWaiting(g) ==
    IF g.waitingForSettle /\ allStopped(g)
    THEN [g EXCEPT !.currentSide = IF g.currentSide = "A" THEN "B" ELSE "A"]
    ELSE g

switchTurnIfSettle(g) ==
    IF g.waitingForSettle /\ allStopped(g)
    THEN [g EXCEPT !.waitingForSettle = FALSE,
                   !.currentSide = IF g.currentSide = "A" THEN "B" ELSE "A"]
    ELSE g

teamOf(b) == IF b \in Range(teamA) THEN "A" ELSE IF b \in Range(teamB) THEN "B" ELSE "none"

\* isOwnPiece with the two rosters exchanged
isOwnPieceSwapped(b, side) ==
    IF side = "A" THEN b \in Range(teamB) ELSE b \in Range(teamA)

isOwnPiece(b, side) ==
    IF side = "A" THEN b \in Range(teamA) ELSE b \in Range(teamB)

\* clampFlick with its comparison inverted
clampFlickInverted(vec) ==
    LET mag2 == vec.x * vec.x + vec.y * vec.y
    IN IF mag2 >= MAX_FLICK * MAX_FLICK
       THEN Vel(vec.x, vec.y)
       ELSE [x |-> vec.x * MAX_FLICK, y |-> vec.y * MAX_FLICK,
             d2 |-> IF mag2 = 0 THEN 1 ELSE mag2]

\* mag <= MAX_FLICK is decided on the squares; s = MAX_FLICK / (mag || 1)
\* is kept exactly, as the factor MAX_FLICK and the divisor sqrt(d2)
clampFlick(vec) ==
    LET mag2 == vec.x * vec.x + vec.y * vec.y
    IN IF mag2 <= MAX_FLICK * MAX_FLICK
       THEN Vel(vec.x, vec.y)
       ELSE [x |-> vec.x * MAX_FLICK, y |-> vec.y * MAX_FLICK,
             d2 |-> IF mag2 = 0 THEN 1 ELSE mag2]

\* the slot of every tracked body: the pitch center for the ball, and
\* width/2 + i*spacing for i = -1, 0, 1 on the side's base line
slotOf(b) ==
    IF b = ball THEN center(width \div 2, height \div 2)
    ELSE IF b \in Range(teamA)
         THEN LET idx == CHOOSE i \in 1..3 : teamA[i] = b
              IN center(width \div 2 + (idx - 2) * spacing, yA)
         ELSE LET idx == CHOOSE i \in 1..3 : teamB[i] = b
              IN center(width \div 2 + (idx - 2) * spacing, yB)

\* resetPositions that leaves the velocities as they are
resetPositionsKeepVel(g) ==
    [g EXCEPT !.pos = [b \in Circles |-> slotOf(b)],
              !.currentSide = "A",
              !.waitingForSettle = FALSE]

\* resetPositions that leaves waitingForSettle as it is
resetPositionsKeepWaiting(g) ==
    [g EXCEPT !.pos = [b \in Circles |-> slotOf(b)],
              !.vel = [b \in Circles |-> ZeroVel],
              !.currentSide = "A"]

resetPositions(g) ==
    [g EXCEPT !.pos = [b \in Circles |-> slotOf(b)],
              !.vel = [b \in Circles |-> ZeroVel],
              !.currentSide = "A",
              !.waitingForSettle = FALSE]

\* checkGoals that credits the other side
checkGoalsSwapped(g) ==
    LET x == g.pos[ball].x
        y == g.pos[ball].y
        withinGap == x > (width \div 2 - GOAL_WIDTH \div 2)
                     /\ x < (width \div 2 + GOAL_WIDTH \div 2)
    IN IF withinGap /\ y < PITCH_MARGIN + 6
       THEN resetPositions([g EXCEPT !.scoreB = g.scoreB + 1])
       ELSE IF withinGap /\ y > height - PITCH_MARGIN - 6
            THEN resetPositions([g EXCEPT !.scoreA = g.scoreA + 1])
            ELSE g

\* checkGoals with <= and >= on y
checkGoalsLoose(g) ==
    LET x == g.pos[ball].x
        y == g.pos[ball].y
        withinGap == x > (width \div 2 - GOAL_WIDTH \div 2)
                     /\ x < (width \div 2 + GOAL_WIDTH \div 2)
    IN IF withinGap /\ y <= PITCH_MARGIN + 6
       THEN resetPositions([g EXCEPT !.scoreA = g.scoreA + 1])
       ELSE IF withinGap /\ y >= height - PITCH_MARGIN - 6
            THEN resetPositions([g EXCEPT !.scoreB = g.scoreB + 1])
            ELSE g

checkGoals(g) ==
    LET x == g.pos[ball].x
        y == g.pos[ball].y
        withinGap == x > (width \div 2 - GOAL_WIDTH \div 2)
                     /\ x < (width \div 2 + GOAL_WIDTH \div 2)
    IN IF withinGap /\ y < PITCH_MARGIN + 6
       THEN resetPositions([g EXCEPT !.scoreA = g.scoreA + 1])
       ELSE IF withinGap /\ y > height - PITCH_MARGIN - 6
            THEN resetPositions([g EXCEPT !.scoreB = g.scoreB + 1])
            ELSE g

\* pickBodyAt without the pixel of slack: d <= b.circleRadius
pickBodyAtNoSlack(p, ps) ==
    LET hit(b) == circleRadius(b) # 0
                  /\ (ps[b].x - p.x) * (ps[b].x - p.x)
                     + (ps[b].y - p.y) * (ps[b].y - p.y)
                     <= circleRadius(b) * circleRadius(b)
        hits == {i \in 1..Len(allBodies) : hit(allBodies[i])}
    IN IF hits = {} THEN null
       ELSE allBodies[CHOOSE i \in hits : \A j \in hits : i <= j]

\* the first body of the world, in registration order, that is a circle
\* and has its center within circleRadius + 1 of p
pickBodyAt(p, ps) ==
    LET hit(b) == circleRadius(b) # 0
                  /\ (ps[b].x - p.x) * (ps[b].x - p.x)
                     + (ps[b].y - p.y) * (ps[b].y - p.y)
                     <= (circleRadius(b) + 1) * (circleRadius(b) + 1)
        hits == {i \in 1..Len(allBodies) : hit(allBodies[i])}
    IN IF hits = {} THEN null
       ELSE allBodies[CHOOSE i \in hits : \A j \in hits : i <= j]

(***************************************************************************)
(* The inputs of the model                                                 *)
(***************************************************************************)
Slow == [x |-> 1, y |-> 0, d2 |-> 10000]
AtEps == [x |-> 3, y |-> 0, d2 |-> 10000]
Fast == Vel(0, -5)

Body(p, v) == [pos |-> p, vel |-> v]

\* how the physics may leave the ball: at the center at rest, at 0.01
\* (below STOP_EPS), at 0.03 (exactly STOP_EPS) or at 5 pixels per tick;
\* just inside either goal mouth, slow or fast; at rest just outside each
\* edge of the two goal mouths
BallStates ==
    {Body(center(450, 300), v) : v \in {ZeroVel, Slow, AtEps, Fast}}
    \cup {Body(p, v) : p \in {center(371, 25), center(529, 575)}, v \in {Slow, Fast}}
    \cup {Body(p, ZeroVel) : p \in {center(370, 25), center(450, 26),
                                     center(530, 575), center(450, 574)}}

\* the discs the physics moves: the first of each side, the ones within
\* reach of MousePoints; no other disc is ever flicked, and the model lets
\* nothing collide with them
Moved == {"A0", "B0"}

\* 15 pixels from the slot, towards the middle of the pitch
awayOf(b) == center(slotOf(b).x, IF b \in Range(teamA) THEN yA - 15 ELSE yB + 15)

\* how the physics may leave a disc: at rest at its slot, at rest away from
\* it, or away from it and moving
DiscStates(b) ==
    {Body(slotOf(b), ZeroVel), Body(awayOf(b), ZeroVel), Body(awayOf(b), Fast)}

\* the pointer positions, in world coordinates: on the slot of A0, below
\* it out of reach, on the slot of B0, on the pitch center
MousePoints ==
    { center(370, 440), center(370, 470), center(370, 160), center(450, 300) }

IsGoalPoint(p) == checkGoals([Game EXCEPT !.pos = [pos EXCEPT ![ball] = p]]) #
                  [Game EXCEPT !.pos = [pos EXCEPT ![ball] = p]]

(***************************************************************************)
(* Initial state: after onMount                                            *)
(***************************************************************************)
Init ==
    /\ currentSide = "A"
    /\ waitingForSettle = FALSE
    /\ scoreA = 0
    /\ scoreB = 0
    /\ aiming = FALSE
    /\ aimedBody = null
    /\ mousePos = center(0, 0)
    /\ pos = [b \in Circles |-> slotOf(b)]
    /\ vel = [b \in Circles |-> ZeroVel]
    /\ pc = "idle"
    /\ flickSide = "none"
    /\ flickTeam = "none"
    /\ since = {}

(***************************************************************************)
(* The tick: Engine.update, then the afterUpdate listener                  *)
(***************************************************************************)
\* Engine.update: with no gravity a world at rest stays as it is; otherwise
\* every body ends the step at one of its points with one of its velocities
Integrate ==
    /\ pc = "idle"
    /\ pc' = "afterUpdate"
    /\ IF \A b \in Circles : vel[b].x = 0 /\ vel[b].y = 0
       THEN UNCHANGED <<pos, vel>>
       ELSE \E nb \in BallStates, na \in DiscStates("A0"), nd \in DiscStates("B0") :
               LET new(b) == IF b = ball THEN nb
                             ELSE IF b = "A0" THEN na
                             ELSE IF b = "B0" THEN nd
                             ELSE Body(pos[b], vel[b])
               IN /\ scoreA + scoreB >= MaxGoals => ~IsGoalPoint(nb.pos)
                  /\ pos' = [b \in Circles |-> new(b).pos]
                  /\ vel' = [b \in Circles |-> new(b).vel]
    /\ UNCHANGED <<currentSide, waitingForSettle, scoreA, scoreB,
                   aiming, aimedBody, mousePos, hist>>

afterUpdate ==
    /\ pc = "afterUpdate"
    /\ pc' = "idle"
    /\ LET g == switchTurnIfSettle(checkGoals(Game))
       IN /\ pos' = g.pos
          /\ vel' = g.vel
          /\ currentSide' = g.currentSide
          /\ waitingForSettle' = g.waitingForSettle
          /\ scoreA' = g.scoreA
          /\ scoreB' = g.scoreB
          /\ since' = IF checkGoals(Game) # Game THEN since \cup {"goal"}
                      ELSE IF g # Game THEN since \cup {"settle"}
                      ELSE since
    /\ UNCHANGED <<aiming, aimedBody, mousePos, flickSide, flickTeam>>

(***************************************************************************)
(* attachInputHandlers                                                     *)
(***************************************************************************)
\* an Aim Session is open: the test of the up handler and of the preview
AimOpen == aiming /\ aimedBody # null

\* down without its return on waitingForSettle
downNoGate(p) ==
    /\ pc = "idle"
    /\ mousePos' = p
    /\ LET picked == pickBodyAt(p, pos)
       IN IF picked # null /\ picked # ball /\ isOwnPiece(picked, currentSide)
          THEN aimedBody' = picked /\ aiming' = TRUE
          ELSE UNCHANGED <<aimedBody, aiming>>
    /\ UNCHANGED <<currentSide, waitingForSettle, scoreA, scoreB, pos, vel, pc, hist>>

\* down that closes the Aim Session when the hit is not an own disc
downClearsOnMiss(p) ==
    /\ pc = "idle"
    /\ IF waitingForSettle
       THEN UNCHANGED <<mousePos, aimedBody, aiming>>
       ELSE /\ mousePos' = p
            /\ LET picked == pickBodyAt(p, pos)
               IN IF picked # null /\ picked # ball
                     /\ isOwnPiece(picked, currentSide)
                  THEN aimedBody' = picked /\ aiming' = TRUE
                  ELSE aimedBody' = null /\ aiming' = FALSE
    /\ UNCHANGED <<currentSide, waitingForSettle, scoreA, scoreB, pos, vel, pc, hist>>

down(p) ==
    /\ pc = "idle"
    /\ IF waitingForSettle
       THEN UNCHANGED <<mousePos, aimedBody, aiming>>
       ELSE /\ mousePos' = p
            /\ LET picked == pickBodyAt(p, pos)
               IN IF picked # null /\ picked # ball
                     /\ isOwnPiece(picked, currentSide)
                  THEN aimedBody' = picked /\ aiming' = TRUE
                  ELSE UNCHANGED <<aimedBody, aiming>>
    /\ UNCHANGED <<currentSide, waitingForSettle, scoreA, scoreB, pos, vel, pc, hist>>

\* move that drags the aimed disc along with the pointer
moveDrags(p) ==
    /\ pc = "idle"
    /\ mousePos' = p
    /\ pos' = IF aiming /\ aimedBody # null THEN [pos EXCEPT ![aimedBody] = p] ELSE pos
    /\ UNCHANGED <<currentSide, waitingForSettle, scoreA, scoreB,
                   aiming, aimedBody, vel, pc, hist>>

move(p) ==
    /\ pc = "idle"
    /\ mousePos' = p
    /\ UNCHANGED <<currentSide, waitingForSettle, scoreA, scoreB,
                   aiming, aimedBody, pos, vel, pc, hist>>

\* up that does not start the settle wait
upKeepsIdle ==
    /\ pc = "idle"
    /\ IF aiming /\ aimedBody # null
       THEN LET from == pos[aimedBody]
                raw == [x |-> from.x - mousePos.x, y |-> from.y - mousePos.y]
                capped == clampFlick(raw)
            IN /\ vel' = [vel EXCEPT ![aimedBody] = capped]
               /\ aiming' = FALSE
               /\ aimedBody' = null
               /\ flickSide' = currentSide
               /\ flickTeam' = teamOf(aimedBody)
               /\ since' = {}
       ELSE UNCHANGED <<vel, aiming, aimedBody, hist>>
    /\ UNCHANGED <<currentSide, waitingForSettle, scoreA, scoreB, mousePos, pos, pc>>

\* up that starts the settle wait whether or not a session is open
upAlwaysWaits ==
    /\ pc = "idle"
    /\ waitingForSettle' = TRUE
    /\ IF aiming /\ aimedBody # null
       THEN LET from == pos[aimedBody]
                raw == [x |-> from.x - mousePos.x, y |-> from.y - mousePos.y]
                capped == clampFlick(raw)
            IN /\ vel' = [vel EXCEPT ![aimedBody] = capped]
               /\ aiming' = FALSE
               /\ aimedBody' = null
               /\ flickSide' = currentSide
               /\ flickTeam' = teamOf(aimedBody)
               /\ since' = {}
       ELSE UNCHANGED <<vel, aiming, aimedBody, hist>>
    /\ UNCHANGED <<currentSide, scoreA, scoreB, mousePos, pos, pc>>

\* up with the drag vector taken from the disc to the pointer
upReversed ==
    /\ pc = "idle"
    /\ IF aiming /\ aimedBody # null
       THEN LET from == pos[aimedBody]
                raw == [x |-> mousePos.x - from.x, y |-> mousePos.y - from.y]
                capped == clampFlick(raw)
            IN /\ vel' = [vel EXCEPT ![aimedBody] = capped]
               /\ aiming' = FALSE
               /\ aimedBody' = null
               /\ waitingForSettle' = TRUE
               /\ flickSide' = currentSide
               /\ flickTeam' = teamOf(aimedBody)
               /\ since' = {}
       ELSE UNCHANGED <<vel, aiming, aimedBody, waitingForSettle, hist>>
    /\ UNCHANGED <<currentSide, scoreA, scoreB, mousePos, pos, pc>>

\* up that cancels a zero-length drag instead of releasing it
upIgnoresZero ==
    /\ pc = "idle"
    /\ IF aiming /\ aimedBody # null
       THEN LET from == pos[aimedBody]
                raw == [x |-> from.x - mousePos.x, y |-> from.y - mousePos.y]
                capped == clampFlick(raw)
            IN IF raw.x = 0 /\ raw.y = 0
               THEN /\ aiming' = FALSE
                    /\ aimedBody' = null
                    /\ UNCHANGED <<vel, waitingForSettle, hist>>
               ELSE /\ vel' = [vel EXCEPT ![aimedBody] = capped]
                    /\ aiming' = FALSE
                    /\ aimedBody' = null
                    /\ waitingForSettle' = TRUE
                    /\ flickSide' = currentSide
                    /\ flickTeam' = teamOf(aimedBody)
                    /\ since' = {}
       ELSE UNCHANGED <<vel, aiming, aimedBody, waitingForSettle, hist>>
    /\ UNCHANGED <<currentSide, scoreA, scoreB, mousePos, pos, pc>>

up ==
    /\ pc = "idle"
    /\ IF aiming /\ aimedBody # null
       THEN LET from == pos[aimedBody]
                raw == [x |-> from.x - mousePos.x, y |-> from.y - mousePos.y]
                capped == clampFlick(raw)
            IN /\ vel' = [vel EXCEPT ![aimedBody] = capped]
               /\ aiming' = FALSE
               /\ aimedBody' = null
               /\ waitingForSettle' = TRUE
               /\ flickSide' = currentSide
               /\ flickTeam' = teamOf(aimedBody)
               /\ since' = {}
       ELSE UNCHANGED <<vel, aiming, aimedBody, waitingForSettle, hist>>
    /\ UNCHANGED <<currentSide, scoreA, scoreB, mousePos, pos, pc>>

\* reset that starts a new match: the score is cleared too
resetClearsScore ==
    /\ pc = "idle"
    /\ LET g == resetPositions(Game)
       IN /\ pos' = g.pos
          /\ vel' = g.vel
          /\ currentSide' = g.currentSide
          /\ waitingForSettle' = g.waitingForSettle
          /\ scoreA' = 0
          /\ scoreB' = 0
    /\ since' = since \cup {"reset"}
    /\ UNCHANGED <<aiming, aimedBody, mousePos, pc, flickSide, flickTeam>>

reset ==
    /\ pc = "idle"
    /\ LET g == resetPositions(Game)
       IN /\ pos' = g.pos
          /\ vel' = g.vel
          /\ currentSide' = g.currentSide
          /\ waitingForSettle' = g.waitingForSettle
          /\ scoreA' = g.scoreA
          /\ scoreB' = g.scoreB
    /\ since' = since \cup {"reset"}
    /\ UNCHANGED <<aiming, aimedBody, mousePos, pc, flickSide, flickTeam>>

Next ==
    \/ Integrate
    \/ afterUpdate
    \/ \E p \in MousePoints : down(p)
    \/ \E p \in MousePoints : move(p)
    \/ up
    \/ reset

Spec == Init /\ [][Next]_vars

\* the engine step, among those of Integrate, after which every body
\* stands still where it was
IntegrateToRest ==
    /\ pc = "idle"
    /\ pc' = "afterUpdate"
    /\ pos' = pos
    /\ vel' = [b \in Circles |-> ZeroVel]
    /\ UNCHANGED <<currentSide, waitingForSettle, scoreA, scoreB,
                   aiming, aimedBody, mousePos, hist>>

\* The runner keeps ticking (the listener runs after every engine step),
\* and the damping of the engine brings every body below STOP_EPS again
\* and again: whatever the pointer does, a step that leaves all bodies
\* at rest keeps coming.
SpecLive ==
    /\ Init
    /\ [][Next]_vars
    /\ WF_vars(afterUpdate)
    /\ SF_vars(IntegrateToRest)

\* The flick on its own: side A holds an Aim Session on its first disc,
\* which is at its slot, and has dragged the pointer to any point whose
\* offsets from the disc are at most FlickRange; the release follows.
FlickInit ==
    /\ currentSide = "A"
    /\ waitingForSettle = FALSE
    /\ scoreA = 0
    /\ scoreB = 0
    /\ aiming = TRUE
    /\ aimedBody = teamA[1]
    /\ \E dx \in -FlickRange..FlickRange, dy \in -FlickRange..FlickRange :
          mousePos = center(slotOf(teamA[1]).x - dx, slotOf(teamA[1]).y - dy)
    /\ pos = [b \in Circles |-> slotOf(b)]
    /\ vel = [b \in Circles |-> ZeroVel]
    /\ pc = "idle"
    /\ flickSide = "none"
    /\ flickTeam = "none"
    /\ since = {}

SpecFlick == FlickInit /\ [][up]_vars

\* The body lookup on its own: A0 has come to rest beside A1, touching it
\* or up to PickSpread pixels short of it, and the ball is at the center or
\* touches A1 from above; either side is to move, the other having made
\* the last release.  The pointer goes down at the points of PickPoints.
PickInit ==
    /\ currentSide \in {"A", "B"}
    /\ waitingForSettle = FALSE
    /\ scoreA = 0
    /\ scoreB = 0
    /\ aiming = FALSE
    /\ aimedBody = null
    /\ mousePos = center(0, 0)
    /\ \E dx \in 0..PickSpread,
          pb \in {slotOf(ball),
                  center(slotOf(teamA[2]).x, slotOf(teamA[2]).y - DISC_R - BALL_R)} :
          pos = [b \in Circles |->
                   IF b = teamA[1]
                   THEN center(slotOf(teamA[2]).x - 2 * DISC_R - dx, yA)
                   ELSE IF b = ball THEN pb ELSE slotOf(b)]
    /\ vel = [b \in Circles |-> ZeroVel]
    /\ pc = "idle"
    /\ flickSide = IF currentSide = "A" THEN "B" ELSE "A"
    /\ flickTeam = flickSide
    /\ since = {"settle"}

\* points between A0 and A1, within PickSpread of the rim of A1's reach;
\* the center of A1; a point between A1 and the ball touching it; a point
\* on B1; a point inside the left wall; the corner of the canvas
PickPoints ==
    {center(slotOf(teamA[2]).x - DISC_R - 1 + dx, yA) : dx \in -PickSpread..PickSpread}
    \cup {slotOf(teamA[2]),
          center(slotOf(teamA[2]).x, slotOf(teamA[2]).y - DISC_R),
          slotOf(teamB[2]),
          center(PITCH_MARGIN \div 2, height \div 2),
          center(0, 0)}

SpecPick == PickInit /\ [][\E p \in PickPoints : down(p)]_vars

(***************************************************************************)
(* Properties                                                              *)
(***************************************************************************)
\* a flick release: the up handler run with an open Aim Session
Release == up /\ AimOpen

roster(side) == IF side = "A" THEN Range(teamA) ELSE Range(teamB)

\* C1, settle gate: no Aim Session is open while waitingForSettle is true;
\* a pointer-down that arrives while waitingForSettle is true opens none;
\* no flick velocity is written while waitingForSettle is true.
C1_SettleGate ==
    /\ [](~(AimOpen /\ waitingForSettle))
    /\ [][(\E p \in MousePoints : down(p)) /\ waitingForSettle
            => ~AimOpen' /\ aimedBody' = aimedBody /\ aiming' = aiming]_vars
    /\ [][Release => ~waitingForSettle]_vars

\* a flick is settling and a pointer-down on an own disc is possible
C1_Witness ==
    /\ pc = "idle"
    /\ waitingForSettle
    /\ flickSide = currentSide
    /\ \E p \in MousePoints : pickBodyAt(p, pos) \in roster(currentSide)

\* C2, ownership at pointer-down: a pointer-down that opens or retargets
\* the Aim Session during side A's turn never targets a Team B disc or the
\* ball, and during side B's turn never a Team A disc or the ball.
C2_Ownership ==
    [][\A p \in MousePoints :
          down(p) /\ (aimedBody' # aimedBody \/ aiming' # aiming)
          => /\ AimOpen'
             /\ currentSide = "A" => aimedBody' \notin Range(teamB) \cup {ball}
             /\ currentSide = "B" => aimedBody' \notin Range(teamA) \cup {ball}]_vars

\* side B has opened an Aim Session on one of its discs while a Team A
\* disc and the ball are within reach of the pointer
C2_Witness ==
    /\ currentSide = "B"
    /\ AimOpen
    /\ aimedBody \in Range(teamB)
    /\ pickBodyAt(mousePos, pos) = aimedBody
    /\ \E p \in MousePoints : pickBodyAt(p, pos) \in Range(teamA)
    /\ \E p \in MousePoints : pickBodyAt(p, pos) = ball

\* C3, as claimed: in every reachable state an open Aim Session targets a
\* disc of the roster of currentSide, so that a release writes its velocity
\* to a disc of the side to move.
C3_AimTargetsSideToMove ==
    AimOpen => aimedBody \in roster(currentSide)


other(side) == IF side = "A" THEN "B" ELSE "A"

\* x is strictly inside the goal gap (width/2 - goalWidth/2, width/2 + goalWidth/2)
InGap(x) == 2 * x > width - GOAL_WIDTH /\ 2 * x < width + GOAL_WIDTH

\* the ball is where side A scores, where side B scores
TopGoal == InGap(pos[ball].x) /\ pos[ball].y < PITCH_MARGIN + 6
BottomGoal == InGap(pos[ball].x) /\ pos[ball].y > height - PITCH_MARGIN - 6

\* every tracked body has speed < STOP_EPS (0.03)
AllAtRest ==
    \A b \in Circles :
        100 * 100 * (vel[b].x * vel[b].x + vel[b].y * vel[b].y)
            < STOP_EPS * STOP_EPS * vel[b].d2

\* the ball at the pitch center and the discs at x = width/2 - spacing,
\* width/2, width/2 + spacing in roster order on their side's base line
CanonicalLayout(ps) ==
    /\ DOMAIN ps = {ball} \cup Range(teamA) \cup Range(teamB)
    /\ 2 * ps[ball].x = width /\ 2 * ps[ball].y = height
    /\ \A i \in 1..3 :
          /\ 2 * ps[teamA[i]].x = width + 2 * (i - 2) * spacing
          /\ ps[teamA[i]].y = height - 160
          /\ 2 * ps[teamB[i]].x = width + 2 * (i - 2) * spacing
          /\ ps[teamB[i]].y = 160

AllZero(vs) ==
    /\ DOMAIN vs = {ball} \cup Range(teamA) \cup Range(teamB)
    /\ \A b \in DOMAIN vs : vs[b].x = 0 /\ vs[b].y = 0

\* C4, turn alternation cycle: the first tick after a flick release at
\* which all bodies are stopped, with no goal and no Reset since the
\* release, ends in {the side opposite to the one that released, idle}.
C4_AlternationCycle ==
    [][afterUpdate /\ waitingForSettle /\ since = {}
       /\ ~TopGoal /\ ~BottomGoal /\ AllAtRest
       => /\ ~waitingForSettle'
          /\ currentSide' = other(flickSide)
          /\ flickSide = "A" => currentSide' = "B"
          /\ flickSide = "B" => currentSide' = "A"]_vars

\* a cycle started by side B has ended in {A-to-move, idle} after bodies
\* moved (side B is to move only once a cycle started by side A has ended)
C4_Witness ==
    /\ flickSide = "B"
    /\ since = {"settle"}
    /\ currentSide = "A"
    /\ ~waitingForSettle
    /\ \E b \in Circles : pos[b] # slotOf(b)

C6_GoalEvent ==
    [][afterUpdate
       => /\ TopGoal => /\ scoreA' = scoreA + 1 /\ scoreB' = scoreB
                        /\ currentSide' = "A" /\ ~waitingForSettle'
          /\ BottomGoal => /\ scoreB' = scoreB + 1 /\ scoreA' = scoreA
                           /\ currentSide' = "A" /\ ~waitingForSettle'
          /\ ~InGap(pos[ball].x) => scoreA' = scoreA /\ scoreB' = scoreB]_vars

\* the goal detection is about to see the ball in the bottom goal with
\* side B to move and a settle pending
C6_Witness ==
    /\ pc = "afterUpdate"
    /\ BottomGoal
    /\ currentSide = "B"
    /\ waitingForSettle

\* C7, score monotonicity: no step decreases a score; a step that changes
\* a score is a tick that detects a goal and adds exactly 1 to exactly one
\* of them; the pointer handlers and Reset leave both scores as they are.
C7_ScoreMonotone ==
    [][/\ scoreA' >= scoreA /\ scoreB' >= scoreB
       /\ (scoreA' # scoreA \/ scoreB' # scoreB)
          => /\ afterUpdate
             /\ TopGoal \/ BottomGoal
             /\ ~(TopGoal /\ BottomGoal)
             /\ scoreA' + scoreB' = scoreA + scoreB + 1
       /\ (reset \/ up \/ \E p \in MousePoints : down(p) \/ move(p))
          => scoreA' = scoreA /\ scoreB' = scoreB]_vars

\* a goal has been counted and Reset has been used since
C7_Witness ==
    /\ scoreA + scoreB >= 1
    /\ "reset" \in since
    /\ "goal" \notin since
    /\ flickSide # "none"

\* C8, goal idempotence under reset: right after a goal event the ball is
\* at the pitch center, the six discs are at their slots, all seven
\* velocities are zero, and the bodies are the same seven.
C8_GoalResetsLayout ==
    [][afterUpdate /\ (TopGoal \/ BottomGoal)
       => /\ CanonicalLayout(pos')
          /\ AllZero(vel')
          /\ DOMAIN pos' = DOMAIN pos
          /\ DOMAIN vel' = DOMAIN vel]_vars

\* the goal detection is about to see a goal with a disc of each side away
\* from its slot and one of them moving
C8_Witness ==
    /\ pc = "afterUpdate"
    /\ TopGoal \/ BottomGoal
    /\ pos["A0"] # slotOf("A0")
    /\ pos["B0"] # slotOf("B0")
    /\ \E b \in Range(teamA) \cup Range(teamB) : vel[b] # ZeroVel

\* C9, Reset command: in any state Reset leaves the bodies at their
\* canonical positions with zero velocity, waitingForSettle false and side
\* A to move, and leaves both scores as they are.
C9_ResetCommand ==
    [][reset
       => /\ CanonicalLayout(pos')
          /\ AllZero(vel')
          /\ ~waitingForSettle'
          /\ currentSide' = "A"
          /\ scoreA' = scoreA
          /\ scoreB' = scoreB]_vars

\* Reset has been used, after a goal was counted, while side B was to move
\* with an Aim Session open: no goal since the last release, which side A
\* made, and the session on a Team B disc is still there
C9_Witness ==
    /\ since = {"settle", "reset"}
    /\ flickSide = "A"
    /\ AimOpen
    /\ aimedBody \in Range(teamB)
    /\ currentSide = "A"
    /\ scoreA + scoreB >= 1
    /\ CanonicalLayout(pos)

Rejected(p) ==
    \/ waitingForSettle
    \/ pickBodyAt(p, pos) = null
    \/ pickBodyAt(p, pos) \in roster(other(currentSide))
    \/ pickBodyAt(p, pos) = ball

\* C11, as claimed: a rejected pointer-down changes no state at all, the
\* live cursor position included.
C11_RejectedDownAsClaimed ==
    [][\A p \in MousePoints : down(p) /\ Rejected(p) => UNCHANGED vars]_vars

\* C11, amended: a rejected pointer-down changes nothing but the live
\* cursor position, which stays as it is during settle and becomes the
\* pointer position otherwise.
C11_RejectedDown ==
    [][\A p \in MousePoints :
          down(p) /\ Rejected(p)
          => /\ UNCHANGED <<currentSide, waitingForSettle, scoreA, scoreB,
                            pos, vel, aiming, aimedBody>>
             /\ waitingForSettle => mousePos' = mousePos
             /\ ~waitingForSettle => mousePos' = p]_vars

\* an Aim Session is open and the pointer is where it hits no body
C11_Witness ==
    /\ AimOpen
    /\ ~waitingForSettle
    /\ pickBodyAt(mousePos, pos) = null
    /\ mousePos \in MousePoints

\* C12: a pointer-up with no open Aim Session changes nothing: no velocity
\* is written, no settle wait starts, side and scores stay.
C12_UpWithoutSession ==
    [][up /\ ~AimOpen => UNCHANGED vars]_vars

\* side A is to move, no session is open and the pointer is on a Team B
\* disc, as after a rejected pointer-down on it
C12_Witness ==
    /\ pc = "idle"
    /\ currentSide = "A"
    /\ ~waitingForSettle
    /\ ~AimOpen
    /\ pickBodyAt(mousePos, pos) \in Range(teamB)


\* C13, as claimed: a pointer-down that arrives while an Aim Session is
\* open does not change the session's target disc.  (That at most one
\* session is open holds by construction: aimedBody is one reference.)
C13_SecondDownAsClaimed ==
    [][\A p \in PickPoints : down(p) /\ AimOpen => aimedBody' = aimedBody]_vars

\* the squared distance from p to the center of b
Dist2(p, b) ==
    (pos[b].x - p.x) * (pos[b].x - p.x) + (pos[b].y - p.y) * (pos[b].y - p.y)

\* registration order of the circular bodies: ball, Team A, Team B
regOrder == <<ball>> \o teamA \o teamB

\* the places in regOrder of the bodies whose center lies within
\* radius + 1 of p
Qualifying(p) ==
    {i \in 1..Len(regOrder) :
        LET r == IF regOrder[i] = ball THEN BALL_R ELSE DISC_R
        IN Dist2(p, regOrder[i]) <= (r + 1) * (r + 1)}

\* the qualifying body closest to p, the first in registration order
\* among those at the least distance; none when no body qualifies
ClosestBody(p) ==
    IF Qualifying(p) = {} THEN null
    ELSE regOrder[CHOOSE i \in Qualifying(p) :
            \A j \in Qualifying(p) :
                \/ Dist2(p, regOrder[i]) < Dist2(p, regOrder[j])
                \/ Dist2(p, regOrder[i]) = Dist2(p, regOrder[j]) /\ i <= j]

\* C18, as claimed: the body a pointer-down looks up is the closest of the
\* qualifying circular bodies, registration order breaking ties only.
C18_ClosestAsClaimed ==
    [][\A p \in PickPoints :
          down(p) /\ ~waitingForSettle => pickBodyAt(p, pos) = ClosestBody(p)]_vars

\* C18, amended: the body a pointer-down looks up is the first, in
\* registration order (ball, Team A, Team B), of the circular bodies whose
\* center lies within radius + 1 of the position, whether or not another
\* one is closer; it is none when no circular body qualifies, and never a
\* wall or post.
C18_FirstInOrder ==
    [][\A p \in PickPoints :
          down(p) /\ ~waitingForSettle
          => LET r == pickBodyAt(p, pos)
             IN /\ r \notin Range(pitchBodies)
                /\ Qualifying(p) = {} <=> r = null
                /\ Qualifying(p) # {}
                   => \E i \in Qualifying(p) :
                         /\ r = regOrder[i]
                         /\ \A j \in Qualifying(p) : i <= j]_vars

\* the pointer went down where both A0 and A1 qualify and A1 is the
\* closer: the session is on A0
C18_Witness ==
    /\ AimOpen
    /\ aimedBody = teamA[1]
    /\ {2, 3} \subseteq Qualifying(mousePos)
    /\ Dist2(mousePos, teamA[2]) < Dist2(mousePos, teamA[1])


\* C14, settle step: on a tick with no goal, waitingForSettle with every
\* tracked body slower than STOP_EPS ends the wait and flips the side; with
\* a body at STOP_EPS or faster, or with no wait pending, the tick leaves
\* currentSide and waitingForSettle as they are.
C14_SettleStep ==
    [][afterUpdate /\ ~TopGoal /\ ~BottomGoal
       => IF waitingForSettle /\ AllAtRest
          THEN ~waitingForSettle' /\ currentSide' = other(currentSide)
          ELSE UNCHANGED <<currentSide, waitingForSettle>>]_vars

\* the settle evaluation is about to see the ball at exactly STOP_EPS and
\* every disc at rest, with a wait pending and no goal
C14_Witness ==
    /\ pc = "afterUpdate"
    /\ waitingForSettle
    /\ ~TopGoal /\ ~BottomGoal
    /\ vel[ball] = AtEps
    /\ \A b \in Range(teamA) \cup Range(teamB) : vel[b] = ZeroVel

\* C15, flick release effect: the release writes to the target the drag
\* vector (disc position minus live cursor position) with its length
\* capped at MAX_FLICK, closes the session and sets waitingForSettle; it
\* leaves currentSide, the scores, every position and every other
\* velocity as they are; nothing else sets waitingForSettle.
C15_ReleaseEffect ==
    /\ [][Release
          => LET t == aimedBody
                 v == [x |-> pos[t].x - mousePos.x, y |-> pos[t].y - mousePos.y]
                 w == vel'[t]
                 v2 == v.x * v.x + v.y * v.y
                 w2 == w.x * w.x + w.y * w.y
             IN /\ w.d2 > 0
                /\ w.x * v.y = w.y * v.x
                /\ w.x * v.x + w.y * v.y >= 0
                /\ IF v2 <= MAX_FLICK * MAX_FLICK
                   THEN w2 = v2 * w.d2
                   ELSE w2 = MAX_FLICK * MAX_FLICK * w.d2
                /\ aiming' = FALSE /\ aimedBody' = null
                /\ waitingForSettle'
                /\ UNCHANGED <<currentSide, scoreA, scoreB, pos>>
                /\ \A b \in Circles \ {t} : vel'[b] = vel[b]]_vars
    /\ [][~waitingForSettle /\ waitingForSettle' => Release]_vars

\* side B has just released a drag longer than MAX_FLICK on a disc that
\* stood away from its slot
C15_Witness ==
    /\ pc = "idle"
    /\ waitingForSettle
    /\ since = {}
    /\ flickSide = "B"
    /\ vel[teamB[1]].d2 > 1
    /\ pos[teamB[1]] # slotOf(teamB[1])

\* C16, tick ordering: on a tick that detects a goal while waitingForSettle
\* is true, the settle evaluation of that tick does not flip the side: the
\* state after the tick is {A-to-move, idle}, never {B-to-move, idle}.
C16_GoalBeforeSettle ==
    [][afterUpdate /\ (TopGoal \/ BottomGoal) /\ waitingForSettle
       => currentSide' = "A" /\ ~waitingForSettle']_vars

\* the tick hook is about to run after an integration that left the ball
\* in a goal and every body slower than STOP_EPS, with side A to move and
\* a wait pending: goal and settle conditions hold in the same tick
C16_Witness ==
    /\ pc = "afterUpdate"
    /\ TopGoal \/ BottomGoal
    /\ waitingForSettle
    /\ currentSide = "A"
    /\ AllAtRest

\* C19: a pointer-move sets the live cursor position and changes nothing
\* else.
C19_MoveOnlyCursor ==
    [][\A p \in MousePoints :
          move(p)
          => /\ mousePos' = p
             /\ UNCHANGED <<pos, vel, currentSide, waitingForSettle,
                            scoreA, scoreB, aiming, aimedBody>>]_vars

\* side B holds a session on one of its discs and the pointer has gone to
\* the ball
C19_Witness ==
    /\ AimOpen
    /\ currentSide = "B"
    /\ aimedBody \in Range(teamB)
    /\ pickBodyAt(mousePos, pos) = ball

\* C20: a release with the pointer exactly on the disc writes the zero
\* velocity, moves nothing and still sets waitingForSettle; the engine
\* leaves a world at rest as it is (no gravity); and a tick that finds the
\* wait pending with no body moving and no goal flips currentSide and ends
\* the wait, no position having changed.
C20_ZeroFlickPassesTurn ==
    /\ [][Release /\ mousePos = pos[aimedBody]
          => /\ vel'[aimedBody].x = 0 /\ vel'[aimedBody].y = 0
             /\ waitingForSettle'
             /\ currentSide' = currentSide
             /\ pos' = pos]_vars
    /\ [][pc = "idle" /\ pc' = "afterUpdate" /\ AllZero(vel)
          => pos' = pos /\ vel' = vel]_vars
    /\ [][afterUpdate /\ waitingForSettle /\ AllZero(vel)
          /\ ~TopGoal /\ ~BottomGoal
          => /\ currentSide' = other(currentSide)
             /\ ~waitingForSettle'
             /\ pos' = pos]_vars

\* a zero-length flick has just been released with every body at rest
C20_Witness ==
    /\ pc = "idle"
    /\ waitingForSettle
    /\ since = {}
    /\ flickSide = currentSide
    /\ AllZero(vel)
    /\ \E b \in roster(flickTeam) : mousePos = pos[b]


\* C17, settle liveness: while ticks keep occurring and the physics keeps
\* bringing the bodies to rest, every state with waitingForSettle true is
\* followed by one with waitingForSettle false; and no state is terminal:
\* the next step of the tick can always be taken.
C17_SettleLiveness ==
    /\ waitingForSettle ~> ~waitingForSettle
    /\ [](/\ pc = "idle" => ENABLED Integrate
          /\ pc = "afterUpdate" => ENABLED afterUpdate)

\* a wait is pending and a body is still moving at 5 pixels per tick
C17_Witness ==
    /\ pc = "idle"
    /\ waitingForSettle
    /\ \E b \in Circles : vel[b] = Fast

====
